---- MODULE Spec2Model ----
(***************************************************************************)
(* Model of airbyte-webapp/src/views/Connection/ConnectionForm/            *)
(* formConfig.tsx: the connection form's validation schema, the merge of   *)
(* normalization and transformations into the operation list, and the      *)
(* construction of the form's initial values.                              *)
(*                                                                         *)
(* Every exported function is pure, so the state is one call: the          *)
(* operation that is called (op), its arguments (args), the position of    *)
(* the call (pc) and, once it has returned, its result.  Init draws the    *)
(* arguments from bounded sets; one action per function applies it.        *)
(***************************************************************************)
EXTENDS Integers, Sequences, FiniteSets

VARIABLES op, args, result, pc

vars == <<op, args, result, pc>>

(***************************************************************************)
(* Optional values.  A TypeScript value that may be undefined is a         *)
(* sequence of length 0 (undefined) or 1 (the value).                      *)
(***************************************************************************)
Undefined == <<>>

Some(v) == <<v>>

IsDefined(o) == Len(o) > 0

Get(o) == o[1]

SeqsUpTo(S, n) == UNION {[1..k -> S] : k \in 0..n}

Min(S) == CHOOSE x \in S : \A y \in S : x <= y

(***************************************************************************)
(* Bounds of the argument sets.                                            *)
(***************************************************************************)
MaxPersisted == 2

MaxTransformations == 2

MaxStreams == 3

MaxFormStreams == 1

(***************************************************************************)
(* Number.prototype.toString for a non-negative integer: its decimal       *)
(* digits, most significant first.                                         *)
(***************************************************************************)
Digits == <<"0", "1", "2", "3", "4", "5", "6", "7", "8", "9">>

RECURSIVE ToString(_)
ToString(n) ==
    IF n < 10 THEN Digits[n + 1]
    ELSE ToString(n \div 10) \o Digits[(n % 10) + 1]

(***************************************************************************)
(* Enumerations.                                                           *)
(***************************************************************************)
FullRefresh == "full_refresh"

Incremental == "incremental"

SyncModes == {FullRefresh, Incremental}

overwrite == "overwrite"

append == "append"

append_dedup == "append_dedup"

DestinationSyncModes == {overwrite, append, append_dedup}

BASIC == "basic"

RAW == "raw"

OperatorNormalization == "normalization"

OperatorDbt == "dbt"

SUPPORTED_MODES ==
    << <<FullRefresh, overwrite>>,
       <<FullRefresh, append>>,
       <<Incremental, append>>,
       <<Incremental, append_dedup>> >>

DEFAULT_SCHEDULE == [tag |-> "object", units |-> Some(24), timeUnit |-> Some("hours")]

(***************************************************************************)
(* Operations (OperationRead / Transformation).  operatorConfiguration is  *)
(* flattened: operatorType, and option = operatorConfiguration             *)
(* .normalization.option, undefined for a dbt operation.                   *)
(***************************************************************************)
WorkspaceId == "workspace-1"

NormalizationOp(id, option) ==
    [name |-> "Normalization", workspaceId |-> WorkspaceId, operationId |-> id,
     operatorType |-> OperatorNormalization, option |-> Some(option)]

DbtOp(id, name) ==
    [name |-> name, workspaceId |-> WorkspaceId, operationId |-> id,
     operatorType |-> OperatorDbt, option |-> Undefined]

isNormalizationTransformation(o) == o.operatorType = OperatorNormalization

isDbtTransformation(o) == o.operatorType = OperatorDbt

\* Array.prototype.find(isNormalizationTransformation): the first match, or undefined.
FindNormalization(operations) ==
    LET I == {i \in 1..Len(operations) : isNormalizationTransformation(operations[i])}
    IN  IF I = {} THEN Undefined ELSE Some(operations[Min(I)])

\* Array.prototype.filter(isDbtTransformation): the matches, in order.
RECURSIVE FilterDbt(_)
FilterDbt(operations) ==
    IF operations = <<>> THEN <<>>
    ELSE IF isDbtTransformation(Head(operations))
         THEN <<Head(operations)>> \o FilterDbt(Tail(operations))
         ELSE FilterDbt(Tail(operations))

\* A string is truthy when it is defined and not empty.
Truthy(o) == IsDefined(o) /\ Get(o) # ""

(***************************************************************************)
(* mapFormPropsToOperation.  initialOperations defaults to [] when it is   *)
(* undefined.                                                              *)
(***************************************************************************)
NewNormalization(values, workspaceId) ==
    [name |-> "Normalization", workspaceId |-> workspaceId, operationId |-> "",
     operatorType |-> OperatorNormalization, option |-> values.normalization]

\* Faulty variant: the normalization operation is pushed after the transformations.
MapFormPropsToOperation_normalizationLast(values, initialOperations, workspaceId) ==
    LET operations == IF IsDefined(initialOperations) THEN Get(initialOperations) ELSE <<>>
        normalizationOperation == FindNormalization(operations)
        first ==
            IF Truthy(values.normalization) /\ Get(values.normalization) # RAW
            THEN IF IsDefined(normalizationOperation)
                 THEN <<Get(normalizationOperation)>>
                 ELSE <<NewNormalization(values, workspaceId)>>
            ELSE <<>>
        rest == IF IsDefined(values.transformations) THEN Get(values.transformations) ELSE <<>>
    IN  rest \o first

\* Faulty variant: the persisted normalization operation is never looked up.
MapFormPropsToOperation_alwaysNew(values, initialOperations, workspaceId) ==
    LET first ==
            IF Truthy(values.normalization) /\ Get(values.normalization) # RAW
            THEN <<NewNormalization(values, workspaceId)>>
            ELSE <<>>
        rest == IF IsDefined(values.transformations) THEN Get(values.transformations) ELSE <<>>
    IN  first \o rest

MapFormPropsToOperation(values, initialOperations, workspaceId) ==
    LET operations == IF IsDefined(initialOperations) THEN Get(initialOperations) ELSE <<>>
        normalizationOperation == FindNormalization(operations)
        first ==
            IF Truthy(values.normalization)
            THEN IF Get(values.normalization) # RAW
                 THEN IF IsDefined(normalizationOperation)
                      THEN <<Get(normalizationOperation)>>
                      ELSE <<NewNormalization(values, workspaceId)>>
                 ELSE <<>>
            ELSE <<>>
        rest == IF IsDefined(values.transformations) THEN Get(values.transformations) ELSE <<>>
    IN  first \o rest

(***************************************************************************)
(* connectionValidationSchema.  A violation is a message key and the path  *)
(* of the field it is reported at.  Every rule of the schema is evaluated  *)
(* and the violations are collected (the form validates without aborting   *)
(* at the first one).  The rules of prefix, namespaceDefinition and        *)
(* namespaceFormat read no field the rules below read; they are left out.  *)
(***************************************************************************)
Violation(message, path) == [message |-> message, path |-> path]

\* Faulty variant: .nullable() is missing, so null is rejected like undefined.
ValidateSchedule_notNullable(schedule) ==
    IF schedule.tag \in {"undefined", "null"}
    THEN {Violation("form.empty.error", "schedule")}
    ELSE (IF IsDefined(schedule.units) THEN {}
          ELSE {Violation("form.empty.error", "schedule.units")})
         \cup
         (IF Truthy(schedule.timeUnit) THEN {}
          ELSE {Violation("form.empty.error", "schedule.timeUnit")})

\* schedule: object({units: number().required, timeUnit: string().required})
\*           .nullable().defined("form.empty.error")
\* An undefined schedule is reported at the schedule field itself; a yup
\* version that first casts it to an object of undefined fields reports it
\* at schedule.units and schedule.timeUnit instead, and rejects it as well.
ValidateSchedule(schedule) ==
    IF schedule.tag = "undefined" THEN {Violation("form.empty.error", "schedule")}
    ELSE IF schedule.tag = "null" THEN {}
    ELSE (IF IsDefined(schedule.units) THEN {}
          ELSE {Violation("form.empty.error", "schedule.units")})
         \cup
         (IF Truthy(schedule.timeUnit) THEN {}
          ELSE {Violation("form.empty.error", "schedule.timeUnit")})

\* value.primaryKey?.length === 0 and value.cursorField?.length === 0
LengthIsZero(o) == IsDefined(o) /\ Len(Get(o)) = 0

PrimaryKeyPath(id) == "schema.streams[" \o id \o "].config.primaryKey"

CursorFieldPath(id) == "schema.streams[" \o id \o "].config.cursorField"

\* Faulty variant: the test does not return early for an unselected stream.
ConfigValidator_ignoresSelected(parent) ==
    LET value == parent.config
    IN  IF append_dedup = value.destinationSyncMode /\ LengthIsZero(value.primaryKey)
        THEN {Violation("connectionForm.primaryKey.required", PrimaryKeyPath(parent.id))}
        ELSE IF /\ Incremental = value.syncMode
                /\ ~parent.stream.sourceDefinedCursor
                /\ LengthIsZero(value.cursorField)
        THEN {Violation("connectionForm.cursorField.required", CursorFieldPath(parent.id))}
        ELSE {}

\* The test "connectionSchema.config.validator"; parent is the stream node
\* (this.parent), value its config.  It returns at its first violation.
ConfigValidator(parent) ==
    LET value == parent.config
    IN  IF ~value.selected THEN {}
        ELSE IF append_dedup = value.destinationSyncMode /\ LengthIsZero(value.primaryKey)
        THEN {Violation("connectionForm.primaryKey.required", PrimaryKeyPath(parent.id))}
        ELSE IF /\ Incremental = value.syncMode
                /\ ~parent.stream.sourceDefinedCursor
                /\ LengthIsZero(value.cursorField)
        THEN {Violation("connectionForm.cursorField.required", CursorFieldPath(parent.id))}
        ELSE {}

\* cursorField: array().of(string()).defined(); index is the position in streams.
CursorFieldDefined(node, index) ==
    IF IsDefined(node.config.cursorField) THEN {}
    ELSE {Violation("mixed.defined",
                    "syncCatalog.streams[" \o ToString(index) \o "].config.cursorField")}

ConnectionValidationSchema(values) ==
    LET streams == values.syncCatalog.streams
    IN  ValidateSchedule(values.schedule)
        \cup UNION {ConfigValidator(streams[i]) : i \in 1..Len(streams)}
        \cup UNION {CursorFieldDefined(streams[i], i - 1) : i \in 1..Len(streams)}

(***************************************************************************)
(* formConfigHelpers (not part of the sources): the compatibility resolver *)
(***************************************************************************)
Supports(supportedDestinationSyncModes, mode) ==
    IsDefined(supportedDestinationSyncModes) /\ mode \in Get(supportedDestinationSyncModes)

\* The first pair of SUPPORTED_MODES the stream and the destination support.
ResolveDefaultMode(stream, supportedDestinationSyncModes) ==
    LET I == {i \in 1..Len(SUPPORTED_MODES) :
                /\ SUPPORTED_MODES[i][1] \in stream.supportedSyncModes
                /\ Supports(supportedDestinationSyncModes, SUPPORTED_MODES[i][2])}
    IN  IF I = {} THEN Undefined ELSE Some(SUPPORTED_MODES[Min(I)])

\* A configured sync mode the stream does not support is replaced by the
\* first one of the table that it supports.
VerifySupportedSyncModes(node) ==
    LET r == ResolveDefaultMode(node.stream, Some(DestinationSyncModes))
    IN  IF node.config.syncMode \in node.stream.supportedSyncModes \/ ~IsDefined(r)
        THEN node
        ELSE [node EXCEPT !.config.syncMode = Get(r)[1]]

\* Incremental without a source-defined cursor and without a cursor field
\* takes the stream's default cursor field when there is one.
VerifyConfigCursorField(node) ==
    IF /\ node.config.syncMode = Incremental
       /\ ~node.stream.sourceDefinedCursor
       /\ ~(IsDefined(node.config.cursorField) /\ Len(Get(node.config.cursorField)) > 0)
       /\ Len(node.stream.defaultCursorField) > 0
    THEN [node EXCEPT !.config.cursorField = Some(node.stream.defaultCursorField)]
    ELSE node

\* The configured pair when stream and destination support it, else the
\* resolved default pair, else nothing (the stream is unresolvable).
GetOptimalSyncMode(node, supportedDestinationSyncModes) ==
    LET r == ResolveDefaultMode(node.stream, supportedDestinationSyncModes)
    IN  IF /\ node.config.syncMode \in node.stream.supportedSyncModes
           /\ Supports(supportedDestinationSyncModes, node.config.destinationSyncMode)
        THEN Some(node)
        ELSE IF IsDefined(r)
        THEN Some([node EXCEPT !.config.syncMode = Get(r)[1],
                               !.config.destinationSyncMode = Get(r)[2]])
        ELSE Undefined

(***************************************************************************)
(* useInitialSchema                                                        *)
(***************************************************************************)
\* Array.prototype.filter(Boolean) on the mapped streams.
RECURSIVE FilterBoolean(_)
FilterBoolean(mapped) ==
    IF mapped = <<>> THEN <<>>
    ELSE IF IsDefined(Head(mapped))
         THEN <<Get(Head(mapped))>> \o FilterBoolean(Tail(mapped))
         ELSE FilterBoolean(Tail(mapped))

NodeWithId(apiNode, id) ==
    [id |-> ToString(id), stream |-> apiNode.stream, config |-> apiNode.config]

\* Faulty variant: the id is the position after the unresolvable streams are dropped.
UseInitialSchema_idAfterFilter(schema, supportedDestinationSyncModes) ==
    LET kept == FilterBoolean(
                    [i \in 1..Len(schema.streams) |->
                        GetOptimalSyncMode(
                            VerifyConfigCursorField(
                                VerifySupportedSyncModes(NodeWithId(schema.streams[i], i - 1))),
                            supportedDestinationSyncModes)])
    IN  [streams |-> [i \in 1..Len(kept) |-> [kept[i] EXCEPT !.id = ToString(i - 1)]]]

UseInitialSchema(schema, supportedDestinationSyncModes) ==
    [streams |->
        FilterBoolean(
            [i \in 1..Len(schema.streams) |->
                GetOptimalSyncMode(
                    VerifyConfigCursorField(
                        VerifySupportedSyncModes(NodeWithId(schema.streams[i], i - 1))),
                    supportedDestinationSyncModes)])]

(***************************************************************************)
(* getInitialTransformations, getInitialNormalization, useInitialValues    *)
(***************************************************************************)
GetInitialTransformations(operations) ==
    IF IsDefined(operations) THEN FilterDbt(Get(operations)) ELSE <<>>

GetInitialNormalization(operations, isEditMode) ==
    LET found == IF IsDefined(operations) THEN FindNormalization(Get(operations))
                 ELSE Undefined
        option == IF IsDefined(found) THEN Get(found).option ELSE Undefined
        initialNormalization ==
            IF ~Truthy(option) /\ (IsDefined(isEditMode) /\ Get(isEditMode))
            THEN Undefined
            ELSE option
    IN  IF IsDefined(initialNormalization) THEN Get(initialNormalization) ELSE BASIC

SOURCE_NAMESPACE_TAG == "${SOURCE_NAMESPACE}"

UseInitialValues(connection, destDefinition, isEditMode) ==
    LET initialSchema == UseInitialSchema(connection.syncCatalog,
                                          destDefinition.supportedDestinationSyncModes)
        operations == IF IsDefined(connection.operations) THEN connection.operations
                      ELSE Some(<<>>)
    IN  [syncCatalog |-> initialSchema,
         schedule |-> IF connection.schedule.tag # "undefined" THEN connection.schedule
                      ELSE DEFAULT_SCHEDULE,
         prefix |-> IF Truthy(connection.prefix) THEN Get(connection.prefix) ELSE "",
         namespaceDefinition |-> IF Truthy(connection.namespaceDefinition)
                                 THEN Get(connection.namespaceDefinition) ELSE "source",
         namespaceFormat |-> IF IsDefined(connection.namespaceFormat)
                             THEN Get(connection.namespaceFormat) ELSE SOURCE_NAMESPACE_TAG,
         transformations |-> IF destDefinition.supportsDbt
                             THEN Some(GetInitialTransformations(operations))
                             ELSE Undefined,
         normalization |-> IF destDefinition.supportsNormalization
                           THEN Some(GetInitialNormalization(operations, isEditMode))
                           ELSE Undefined]

(***************************************************************************)
(* Arguments.                                                              *)
(***************************************************************************)
PersistedOps ==
    {NormalizationOp("n1", BASIC), NormalizationOp("n2", RAW), DbtOp("d1", "dbt one")}

UserTransformations == {DbtOp("d1", "dbt one"), DbtOp("", "My dbt transformations")}

NormalizationChoices == {Undefined, Some(BASIC), Some(RAW)}

PersistedOperationLists ==
    {Undefined} \cup {Some(o) : o \in SeqsUpTo(PersistedOps, MaxPersisted)}

MergeArgs ==
    [values : [transformations : {Undefined} \cup
                                 {Some(t) : t \in SeqsUpTo(UserTransformations, MaxTransformations)},
               normalization : NormalizationChoices],
     initialOperations : PersistedOperationLists,
     workspaceId : {WorkspaceId}]

\* The schedule of a form or a connection: undefined, null, or an object.
NoSchedule(tag) == [tag |-> tag, units |-> Undefined, timeUnit |-> Undefined]

Schedules ==
    {NoSchedule("undefined"), NoSchedule("null")} \cup
    [tag : {"object"}, units : {Undefined, Some(24)},
     timeUnit : {Undefined, Some(""), Some("hours")}]

\* The stream nodes of an edited form.
FormNodes ==
    [id : {""},
     stream : [supportedSyncModes : {SyncModes}, sourceDefinedCursor : BOOLEAN,
               defaultCursorField : {<<>>}],
     config : [selected : BOOLEAN, syncMode : SyncModes,
               destinationSyncMode : DestinationSyncModes,
               primaryKey : {Undefined, Some(<<>>), Some(<< <<"id">> >>)},
               cursorField : {Undefined, Some(<<>>), Some(<<"updated_at">>)}]]

\* The ids of a form's streams are positions of the raw catalog they were
\* built from: increasing, and as streams may have been dropped, not
\* necessarily the positions in the form.
FormIds(k) ==
    {ids \in [1..k -> 0..MaxFormStreams] : \A i \in 1..k, j \in 1..k : i < j => ids[i] < ids[j]}

\* The streams of a raw catalog (they carry no id yet).
ApiNodes ==
    [stream : [supportedSyncModes : {{FullRefresh}, {Incremental}, SyncModes},
               sourceDefinedCursor : {FALSE},
               defaultCursorField : {<<>>, <<"updated_at">>}],
     config : {[selected |-> TRUE, syncMode |-> m[1], destinationSyncMode |-> m[2],
                primaryKey |-> Some(<<>>), cursorField |-> Some(<<>>)] :
                    m \in {SUPPORTED_MODES[1], SUPPORTED_MODES[4]}}]

SupportedDestinationSyncModes == {Undefined} \cup {Some(d) : d \in SUBSET DestinationSyncModes}

ResolveArgs ==
    [stream : [supportedSyncModes : SUBSET SyncModes, sourceDefinedCursor : BOOLEAN,
               defaultCursorField : {<<>>, <<"updated_at">>}],
     supportedDestinationSyncModes : SupportedDestinationSyncModes]

\* The optional top-level settings of a connection, unset together or set together.
ConnectionSettings ==
    {[prefix |-> Undefined, namespaceDefinition |-> Undefined, namespaceFormat |-> Undefined],
     [prefix |-> Some("p_"), namespaceDefinition |-> Some("customformat"),
      namespaceFormat |-> Some("fmt")]}

(***************************************************************************)
(* The state machine: a call is drawn, then made.                          *)
(***************************************************************************)
InitCall(name, Args) ==
    /\ op = name
    /\ args \in Args
    /\ result = Undefined
    /\ pc = "ready"

InitMerge == InitCall("mapFormPropsToOperation", MergeArgs)

InitValidate ==
    /\ op = "connectionValidationSchema"
    /\ \E k \in 0..MaxFormStreams :
         \E n \in [1..k -> FormNodes], ids \in FormIds(k), s \in Schedules :
            args = [values |->
                      [schedule |-> s,
                       syncCatalog |->
                          [streams |-> [i \in 1..k |->
                                          [n[i] EXCEPT !.id = ToString(ids[i])]]]]]
    /\ result = Undefined
    /\ pc = "ready"

InitSchema ==
    \/ /\ op = "useInitialSchema"
       /\ \E k \in 0..MaxStreams :
            \E c \in [1..k -> ApiNodes], d \in SupportedDestinationSyncModes :
               args = [schema |-> [streams |-> c], supportedDestinationSyncModes |-> d]
       /\ result = Undefined
       /\ pc = "ready"
    \/ InitCall("resolveDefaultMode", ResolveArgs)

\* A connection holds at most one stream here: useInitialSchema is drawn on
\* whole catalogs above.
InitInitialValues ==
    /\ op = "useInitialValues"
    /\ \E k \in 0..1 :
         \E c \in [1..k -> {n \in ApiNodes : n.stream.defaultCursorField = <<>>}],
            s \in {NoSchedule("undefined"), NoSchedule("null"), DEFAULT_SCHEDULE},
            o \in PersistedOperationLists,
            t \in ConnectionSettings,
            d \in {Undefined, Some({overwrite}), Some(DestinationSyncModes)},
            dbt \in BOOLEAN, norm \in BOOLEAN,
            e \in {Undefined, Some(FALSE), Some(TRUE)} :
               args = [connection |->
                          [syncCatalog |-> [streams |-> c], schedule |-> s,
                           operations |-> o, prefix |-> t.prefix,
                           namespaceDefinition |-> t.namespaceDefinition,
                           namespaceFormat |-> t.namespaceFormat],
                       destDefinition |->
                          [supportedDestinationSyncModes |-> d, supportsDbt |-> dbt,
                           supportsNormalization |-> norm],
                       isEditMode |-> e]
    /\ result = Undefined
    /\ pc = "ready"

Init == InitMerge \/ InitValidate \/ InitSchema \/ InitInitialValues

MapFormPropsToOperationCall ==
    /\ pc = "ready"
    /\ op = "mapFormPropsToOperation"
    /\ result' = MapFormPropsToOperation(args.values, args.initialOperations,
                                          args.workspaceId)
    /\ pc' = "done"
    /\ UNCHANGED <<op, args>>

ConnectionValidationSchemaCall ==
    /\ pc = "ready"
    /\ op = "connectionValidationSchema"
    /\ result' = ConnectionValidationSchema(args.values)
    /\ pc' = "done"
    /\ UNCHANGED <<op, args>>

UseInitialSchemaCall ==
    /\ pc = "ready"
    /\ op = "useInitialSchema"
    /\ result' = UseInitialSchema(args.schema, args.supportedDestinationSyncModes)
    /\ pc' = "done"
    /\ UNCHANGED <<op, args>>

ResolveDefaultModeCall ==
    /\ pc = "ready"
    /\ op = "resolveDefaultMode"
    /\ result' = ResolveDefaultMode(args.stream, args.supportedDestinationSyncModes)
    /\ pc' = "done"
    /\ UNCHANGED <<op, args>>

UseInitialValuesCall ==
    /\ pc = "ready"
    /\ op = "useInitialValues"
    /\ result' = UseInitialValues(args.connection, args.destDefinition, args.isEditMode)
    /\ pc' = "done"
    /\ UNCHANGED <<op, args>>

NextSchema == UseInitialSchemaCall \/ ResolveDefaultModeCall

Next ==
    \/ MapFormPropsToOperationCall
    \/ ConnectionValidationSchemaCall
    \/ UseInitialSchemaCall
    \/ ResolveDefaultModeCall
    \/ UseInitialValuesCall

Spec == Init /\ [][Next]_vars

SpecMerge == InitMerge /\ [][MapFormPropsToOperationCall]_vars

SpecValidate == InitValidate /\ [][ConnectionValidationSchemaCall]_vars

SpecSchema == InitSchema /\ [][NextSchema]_vars

SpecInitialValues == InitInitialValues /\ [][UseInitialValuesCall]_vars

(***************************************************************************)
(* Properties of mapFormPropsToOperation (SpecMerge).                      *)
(***************************************************************************)
MergeDone == pc = "done" /\ op = "mapFormPropsToOperation"

\* The normalization choice is present and is not raw.
ChoiceEmits ==
    /\ args.values.normalization # Undefined
    /\ args.values.normalization # Some(RAW)

ChosenTransformations ==
    IF args.values.transformations = Undefined THEN <<>>
    ELSE args.values.transformations[1]

PersistedOperations ==
    IF args.initialOperations = Undefined THEN <<>> ELSE args.initialOperations[1]

PersistedNormalizations ==
    {i \in 1..Len(PersistedOperations) :
        PersistedOperations[i].operatorType = "normalization"}

\* C1: the merged list is one normalization operation at index 0 exactly
\* when the normalization choice is present and not raw, followed by the
\* user's transformations verbatim and in order; its length is the number
\* of transformations plus 1 or 0, and no normalization operation stands at
\* any later index.
C1_MergeShape ==
    MergeDone =>
        LET n == IF ChoiceEmits THEN 1 ELSE 0
            t == ChosenTransformations
        IN  /\ Len(result) = n + Len(t)
            /\ n = 1 => result[1].operatorType = "normalization"
            /\ \A i \in 1..Len(t) : result[n + i] = t[i]
            /\ \A i \in (n + 1)..Len(result) : result[i].operatorType # "normalization"

C1_Witness ==
    /\ MergeDone
    /\ ChoiceEmits
    /\ Len(ChosenTransformations) = 2
    /\ ChosenTransformations[1] # ChosenTransformations[2]
    /\ PersistedNormalizations # {}
    /\ Len(result) = 3

\* C2: with a non-raw normalization choice, the emitted normalization
\* operation carries the operationId of the persisted normalization
\* operation when there is one (the first of them), and the empty-string
\* operationId when there is none.
C2_NormalizationIdentity ==
    MergeDone /\ ChoiceEmits =>
        IF PersistedNormalizations # {}
        THEN result[1].operationId =
                PersistedOperations[Min(PersistedNormalizations)].operationId
        ELSE result[1].operationId = ""

C2_Witness ==
    /\ MergeDone
    /\ ChoiceEmits
    /\ Cardinality(PersistedNormalizations) = 2
    /\ result[1].operationId = "n2"

\* C10: the emitted normalization operation carries the option chosen in
\* the call, whether it is a reused persisted operation or a new one.
C10_OptionIsChoice ==
    MergeDone /\ ChoiceEmits => result[1].option = args.values.normalization

(***************************************************************************)
(* Properties of connectionValidationSchema (SpecValidate).                *)
(***************************************************************************)
ValidateDone == pc = "done" /\ op = "connectionValidationSchema"

FormStreamsOf == args.values.syncCatalog.streams

IsEmptyArray(o) == o # Undefined /\ Len(o[1]) = 0

IsNonEmptyArray(o) == o # Undefined /\ Len(o[1]) > 0

MissingPrimaryKey(id) ==
    [message |-> "connectionForm.primaryKey.required",
     path |-> "schema.streams[" \o id \o "].config.primaryKey"]

MissingCursorField(id) ==
    [message |-> "connectionForm.cursorField.required",
     path |-> "schema.streams[" \o id \o "].config.cursorField"]

\* C3: a selected Incremental stream without a source-defined cursor and
\* with an empty cursorField gets a MissingCursorField violation at its id,
\* whatever its destinationSyncMode and primaryKey; with a non-empty
\* cursorField it gets none.
C3_CursorRequired ==
    ValidateDone =>
        \A i \in 1..Len(FormStreamsOf) :
            LET n == FormStreamsOf[i]
            IN  /\ n.config.selected
                /\ n.config.syncMode = "incremental"
                /\ ~n.stream.sourceDefinedCursor
                => /\ IsEmptyArray(n.config.cursorField)
                        => MissingCursorField(n.id) \in result
                   /\ IsNonEmptyArray(n.config.cursorField)
                        => MissingCursorField(n.id) \notin result

\* C4: a selected append_dedup stream gets a MissingPrimaryKey violation at
\* its id exactly when its primaryKey is not non-empty.
C4_PrimaryKeyRequired ==
    ValidateDone =>
        \A i \in 1..Len(FormStreamsOf) :
            LET n == FormStreamsOf[i]
            IN  n.config.selected /\ n.config.destinationSyncMode = "append_dedup"
                => (MissingPrimaryKey(n.id) \in result
                        <=> ~IsNonEmptyArray(n.config.primaryKey))

ScheduleViolations ==
    {v \in result : v.path \in {"schedule", "schedule.units", "schedule.timeUnit"}}

SchedulePopulated ==
    /\ args.values.schedule.tag = "object"
    /\ args.values.schedule.units # Undefined
    /\ args.values.schedule.timeUnit \notin {Undefined, Some("")}

\* C5 as stated: the schedule is accepted only when it is a concrete
\* schedule with units and timeUnit populated; unset, null and incomplete
\* schedules are each rejected with a violation on the schedule field.
C5_ScheduleOriginal ==
    ValidateDone => (ScheduleViolations = {} <=> SchedulePopulated)

\* C5 amended: the schedule is accepted when it is null or a concrete
\* schedule with units and timeUnit populated; an unset schedule and a
\* schedule object missing units or timeUnit are each rejected with a
\* violation at the schedule field or one of its sub-fields.
C5_ScheduleAmended ==
    ValidateDone =>
        (ScheduleViolations = {}
            <=> (args.values.schedule.tag = "null" \/ SchedulePopulated))

C5_Witness ==
    /\ ValidateDone
    /\ args.values.schedule.tag = "null"
    /\ ScheduleViolations = {}

\* C9: the per-stream rule reports nothing for an unselected stream, and
\* nothing for a selected stream that is neither append_dedup with an empty
\* primaryKey nor Incremental without a source-defined cursor and with an
\* empty cursorField.
C9_NoViolationOtherwise ==
    ValidateDone =>
        \A i \in 1..Len(FormStreamsOf) :
            LET n == FormStreamsOf[i]
                dedupNoKey == /\ n.config.destinationSyncMode = "append_dedup"
                              /\ IsEmptyArray(n.config.primaryKey)
                incrementalNoCursor == /\ n.config.syncMode = "incremental"
                                       /\ ~n.stream.sourceDefinedCursor
                                       /\ IsEmptyArray(n.config.cursorField)
            IN  ~n.config.selected \/ (~dedupNoKey /\ ~incrementalNoCursor)
                => \A v \in result :
                      v.path \notin {MissingPrimaryKey(n.id).path, MissingCursorField(n.id).path}

C9_Witness ==
    /\ ValidateDone
    /\ Len(FormStreamsOf) = 1
    /\ ~FormStreamsOf[1].config.selected
    /\ FormStreamsOf[1].config.destinationSyncMode = "append_dedup"
    /\ IsEmptyArray(FormStreamsOf[1].config.primaryKey)
    /\ FormStreamsOf[1].config.syncMode = "incremental"
    /\ ~FormStreamsOf[1].stream.sourceDefinedCursor
    /\ IsEmptyArray(FormStreamsOf[1].config.cursorField)
    /\ result = {}

(***************************************************************************)
(* Properties of useInitialValues (SpecInitialValues).                     *)
(***************************************************************************)
InitialValuesDone == pc = "done" /\ op = "useInitialValues"

ConnectionOperations ==
    IF args.connection.operations = Undefined THEN <<>>
    ELSE args.connection.operations[1]

ConnectionNormalizations ==
    {i \in 1..Len(ConnectionOperations) :
        ConnectionOperations[i].operatorType = "normalization"}

\* C6: when the destination supports normalization, the normalization
\* field is the persisted normalization option when there is one, the
\* default option (basic) when there is none and the connection is fresh,
\* and absent when there is none in edit mode; when the destination does
\* not support normalization, the field is absent.
C6_InitialNormalization ==
    InitialValuesDone =>
        IF ~args.destDefinition.supportsNormalization
        THEN result.normalization = Undefined
        ELSE IF ConnectionNormalizations # {}
        THEN result.normalization =
                ConnectionOperations[Min(ConnectionNormalizations)].option
        ELSE IF args.isEditMode = Some(TRUE)
        THEN result.normalization = Undefined
        ELSE result.normalization = Some("basic")

(***************************************************************************)
(* Properties of the resolver and of useInitialSchema (SpecSchema).        *)
(***************************************************************************)
ResolveDone == pc = "done" /\ op = "resolveDefaultMode"

Qualifies(i) ==
    /\ SUPPORTED_MODES[i][1] \in args.stream.supportedSyncModes
    /\ args.supportedDestinationSyncModes # Undefined
    /\ SUPPORTED_MODES[i][2] \in args.supportedDestinationSyncModes[1]

\* C7: the resolver returns the first pair of SUPPORTED_MODES, in its
\* order, that the stream and the destination support, or nothing when no
\* pair qualifies; and for a stream supporting {FullRefresh, Incremental}
\* and a destination supporting overwrite and append_dedup, the pair is
\* (Incremental, append_dedup).
C7_PriorityResolution ==
    ResolveDone =>
        /\ result = Undefined <=> ~\E i \in 1..Len(SUPPORTED_MODES) : Qualifies(i)
        /\ result # Undefined =>
              \E i \in 1..Len(SUPPORTED_MODES) :
                 /\ result = Some(SUPPORTED_MODES[i])
                 /\ Qualifies(i)
                 /\ \A j \in 1..(i - 1) : ~Qualifies(j)
        /\ /\ args.stream.supportedSyncModes = {"full_refresh", "incremental"}
           /\ args.supportedDestinationSyncModes = Some({"overwrite", "append_dedup"})
           => result = Some(<<"incremental", "append_dedup">>)

SchemaDone == pc = "done" /\ op = "useInitialSchema"

RawStreams == args.schema.streams

\* The stream at raw position i (from 1) is resolved.
Resolved(i) ==
    IsDefined(GetOptimalSyncMode(
                VerifyConfigCursorField(VerifySupportedSyncModes(NodeWithId(RawStreams[i], i - 1))),
                args.supportedDestinationSyncModes))

\* The raw position (from 1) whose decimal string is the given id; 0 when none.
RawPosition(id) ==
    LET I == {i \in 1..Len(RawStreams) : ToString(i - 1) = id}
    IN  IF I = {} THEN 0 ELSE Min(I)

\* C8: the output holds exactly the resolved streams, in the raw catalog's
\* relative order, each with the decimal string of its zero-based raw
\* position as id; the ids are pairwise distinct.
C8_SchemaIds ==
    SchemaDone =>
        LET out == result.streams
        IN  /\ \A k \in 1..Len(out) :
                  /\ RawPosition(out[k].id) # 0
                  /\ out[k].stream = RawStreams[RawPosition(out[k].id)].stream
                  /\ Resolved(RawPosition(out[k].id))
            /\ \A i \in 1..Len(RawStreams) :
                  Resolved(i) => \E k \in 1..Len(out) : out[k].id = ToString(i - 1)
            /\ \A k \in 1..Len(out), l \in 1..Len(out) :
                  k < l => RawPosition(out[k].id) < RawPosition(out[l].id)
            /\ \A k \in 1..Len(out), l \in 1..Len(out) :
                  k # l => out[k].id # out[l].id

C8_Witness ==
    /\ SchemaDone
    /\ Len(RawStreams) = 3
    /\ ~Resolved(1)
    /\ RawStreams[2] # RawStreams[3]
    /\ Len(result.streams) = 2
    /\ result.streams[1].id = "1"
    /\ result.streams[2].id = "2"

====
